---- MODULE Spec2Model ----
(***************************************************************************)
(* Model of pythondsa/src/queues.py: ArrayQueue, LinkedQueue,             *)
(* CircularQueue and ArrayDeque.                                           *)
(*                                                                         *)
(* Python lists are modelled as TLA+ sequences; the Python index i is the  *)
(* TLA+ index i + 1.  None is modelled as 0 and elements are positive      *)
(* integers.  Node objects live in a heap (a sequence of records); a       *)
(* reference is the index of the node in the heap and None is 0.           *)
(***************************************************************************)
EXTENDS Integers, Sequences, FiniteSets

\* ---------------------------------------------------------------- bounds
NumValues == 2      \* distinct element values offered to the containers
MaxSize == 3        \* insertions are offered while a container holds fewer
MaxEnq == 22        \* enqueues of labelled elements in the FIFO runs
MaxNodes == 3       \* nodes allocated by one linked container
MaxRot == 2         \* rotate(n) is offered for -MaxRot <= n <= MaxRot
MaxOps == 6         \* counted insertions and removals in the counting runs
MaxDeque == 6       \* elements held by the deque in the runs without remove

\* ------------------------------------------------------ program constants
None == 0
DEFAULT_CAPACITY == 10

Values == 1 .. NumValues
MaxLens == {None, 2, DEFAULT_CAPACITY}
Containers == {"ArrayQueue", "LinkedQueue", "CircularQueue", "ArrayDeque"}

VARIABLES
    container,            \* the class of the object under test
    ArrayQueue_data, ArrayQueue_size, ArrayQueue_front,
    LinkedQueue_nodes, LinkedQueue_head, LinkedQueue_tail, LinkedQueue_size,
    CircularQueue_nodes, CircularQueue_tail, CircularQueue_size,
    ArrayDeque_data, ArrayDeque_size, ArrayDeque_front, ArrayDeque_maxlen,
    ret,                  \* the last call: its name, argument and outcome
    enqueued,             \* observer: every element enqueued so far, in order
    n_dequeued,           \* observer: number of successful dequeues
    S,                    \* observer: reference sequence of the deque
    n_ins, n_rem          \* observer: successful insertions and removals

aqvars == <<ArrayQueue_data, ArrayQueue_size, ArrayQueue_front>>
lqvars == <<LinkedQueue_nodes, LinkedQueue_head, LinkedQueue_tail, LinkedQueue_size>>
cqvars == <<CircularQueue_nodes, CircularQueue_tail, CircularQueue_size>>
dqvars == <<ArrayDeque_data, ArrayDeque_size, ArrayDeque_front, ArrayDeque_maxlen>>
obsvars == <<enqueued, n_dequeued, S, n_ins, n_rem>>
vars == <<container, aqvars, lqvars, cqvars, dqvars, ret, obsvars>>

\* ------------------------------------------------------- Python helpers
\* [None] * n
NoneList(n) == [k \in 1 .. n |-> None]

\* the outcome of a call: its name, its argument list, and a returned value
\* or the exception raised
Returned(op, args, v) == [op |-> op, args |-> args, kind |-> "ok", val |-> v]
Raised(op, args, exc) == [op |-> op, args |-> args, kind |-> exc, val |-> None]

\* ============================================================ ArrayQueue
ArrayQueue_self ==
    [_data |-> ArrayQueue_data, _size |-> ArrayQueue_size, _front |-> ArrayQueue_front]

ArrayQueue_init ==
    [_data |-> NoneList(DEFAULT_CAPACITY), _size |-> 0, _front |-> 0]

ArrayQueue_is_empty(self) == self._size = 0

\* the loop of _resize: for k in range(size): data[k] = old[walk]; walk = ...
RECURSIVE ArrayQueue_resize_loop(_, _, _, _, _)
ArrayQueue_resize_loop(data, old, walk, k, size) ==
    IF k >= size THEN data
    ELSE ArrayQueue_resize_loop([data EXCEPT ![k + 1] = old[walk + 1]], old,
                                (1 + walk) % Len(old), k + 1, size)

ArrayQueue_resize_nowrap(self, cap) ==
    [self EXCEPT !._data = [k \in 1 .. cap |->
                              IF k <= Len(self._data) - self._front /\ k <= self._size
                              THEN self._data[self._front + k] ELSE None],
                 !._front = 0]

ArrayQueue_resize(self, cap) ==
    [self EXCEPT !._data = ArrayQueue_resize_loop(NoneList(cap), self._data,
                                                  self._front, 0, self._size),
                 !._front = 0]

\* enqueue(e): the object after the call (nothing is returned, nothing raised)
ArrayQueue_enqueue(self, e) ==
    LET grown == IF self._size = Len(self._data)
                 THEN ArrayQueue_resize(self, 2 * Len(self._data))
                 ELSE self
        last_in_line == (grown._front + grown._size) % Len(grown._data)
    IN  [grown EXCEPT !._data[last_in_line + 1] = e, !._size = grown._size + 1]

\* dequeue(): the object after the call and the result
ArrayQueue_dequeue(self) ==
    IF ArrayQueue_is_empty(self)
    THEN [self |-> self, out |-> Raised("dequeue", <<>>, "Empty")]
    ELSE [self |-> [self EXCEPT !._data[self._front + 1] = None,
                                !._front = (self._front + 1) % Len(self._data),
                                !._size = self._size - 1],
          out |-> Returned("dequeue", <<>>, self._data[self._front + 1])]

ArrayQueue_first(self) ==
    IF ArrayQueue_is_empty(self)
    THEN [self |-> self, out |-> Raised("first", <<>>, "Empty")]
    ELSE [self |-> self, out |-> Returned("first", <<>>, self._data[self._front + 1])]

ArrayQueue_len(self) == self._size

\* the object is replaced by the outcome of a call
ArrayQueue_set(self) ==
    /\ ArrayQueue_data' = self._data
    /\ ArrayQueue_size' = self._size
    /\ ArrayQueue_front' = self._front

AQ_enqueue(e) ==
    /\ container = "ArrayQueue"
    /\ ArrayQueue_set(ArrayQueue_enqueue(ArrayQueue_self, e))
    /\ ret' = Returned("enqueue", <<e>>, None)
    /\ UNCHANGED <<container, lqvars, cqvars, dqvars>>

AQ_dequeue ==
    /\ container = "ArrayQueue"
    /\ LET r == ArrayQueue_dequeue(ArrayQueue_self)
       IN  ArrayQueue_set(r.self) /\ ret' = r.out
    /\ UNCHANGED <<container, lqvars, cqvars, dqvars>>

AQ_first ==
    /\ container = "ArrayQueue"
    /\ LET r == ArrayQueue_first(ArrayQueue_self)
       IN  ArrayQueue_set(r.self) /\ ret' = r.out
    /\ UNCHANGED <<container, lqvars, cqvars, dqvars>>

\* =========================================================== LinkedQueue
\* LinkedQueue._Node(element, next): the heap with the new node appended
LinkedQueue_Node(nodes, element, next) ==
    Append(nodes, [_element |-> element, _next |-> next])

LinkedQueue_self ==
    [_nodes |-> LinkedQueue_nodes, _head |-> LinkedQueue_head,
     _tail |-> LinkedQueue_tail, _size |-> LinkedQueue_size]

LinkedQueue_init == [_nodes |-> <<>>, _head |-> None, _tail |-> None, _size |-> 0]

LinkedQueue_is_empty(self) == self._size = 0

LinkedQueue_len(self) == self._size

LinkedQueue_first(self) ==
    IF LinkedQueue_is_empty(self)
    THEN [self |-> self, out |-> Raised("first", <<>>, "Empty")]
    ELSE [self |-> self,
          out |-> Returned("first", <<>>, self._nodes[self._head]._element)]

LinkedQueue_dequeue(self) ==
    IF LinkedQueue_is_empty(self)
    THEN [self |-> self, out |-> Raised("dequeue", <<>>, "Empty")]
    ELSE LET answer == self._nodes[self._head]._element
             moved == [self EXCEPT !._head = self._nodes[self._head]._next,
                                   !._size = self._size - 1]
         IN  [self |-> IF LinkedQueue_is_empty(moved)
                       THEN [moved EXCEPT !._tail = None] ELSE moved,
              out |-> Returned("dequeue", <<>>, answer)]

LinkedQueue_enqueue_at_head(self, e) ==
    LET newest == Len(self._nodes) + 1
        heap == LinkedQueue_Node(self._nodes, e, self._head)
    IN  [self EXCEPT !._nodes = heap, !._head = newest,
                     !._tail = IF LinkedQueue_is_empty(self) THEN newest ELSE self._tail,
                     !._size = self._size + 1]

LinkedQueue_enqueue(self, e) ==
    LET newest == Len(self._nodes) + 1
        heap == LinkedQueue_Node(self._nodes, e, None)
        linked == IF LinkedQueue_is_empty(self)
                  THEN [self EXCEPT !._nodes = heap, !._head = newest]
                  ELSE [self EXCEPT !._nodes = [heap EXCEPT ![self._tail]._next = newest]]
    IN  [linked EXCEPT !._tail = newest, !._size = self._size + 1]

LinkedQueue_set(self) ==
    /\ LinkedQueue_nodes' = self._nodes
    /\ LinkedQueue_head' = self._head
    /\ LinkedQueue_tail' = self._tail
    /\ LinkedQueue_size' = self._size

LQ_enqueue(e) ==
    /\ container = "LinkedQueue"
    /\ LinkedQueue_set(LinkedQueue_enqueue(LinkedQueue_self, e))
    /\ ret' = Returned("enqueue", <<e>>, None)
    /\ UNCHANGED <<container, aqvars, cqvars, dqvars>>

LQ_dequeue ==
    /\ container = "LinkedQueue"
    /\ LET r == LinkedQueue_dequeue(LinkedQueue_self)
       IN  LinkedQueue_set(r.self) /\ ret' = r.out
    /\ UNCHANGED <<container, aqvars, cqvars, dqvars>>

LQ_first ==
    /\ container = "LinkedQueue"
    /\ LET r == LinkedQueue_first(LinkedQueue_self)
       IN  LinkedQueue_set(r.self) /\ ret' = r.out
    /\ UNCHANGED <<container, aqvars, cqvars, dqvars>>

\* ========================================================= CircularQueue
CircularQueue_Node(nodes, element, next) ==
    Append(nodes, [_element |-> element, _next |-> next])

CircularQueue_self ==
    [_nodes |-> CircularQueue_nodes, _tail |-> CircularQueue_tail,
     _size |-> CircularQueue_size]

CircularQueue_init == [_nodes |-> <<>>, _tail |-> None, _size |-> 0]

CircularQueue_is_empty(self) == self._size = 0

CircularQueue_len(self) == self._size

CircularQueue_first(self) ==
    IF CircularQueue_is_empty(self)
    THEN [self |-> self, out |-> Raised("first", <<>>, "Empty")]
    ELSE LET head == self._nodes[self._tail]._next
         IN  [self |-> self,
              out |-> Returned("first", <<>>, self._nodes[head]._element)]

CircularQueue_dequeue(self) ==
    IF CircularQueue_is_empty(self)
    THEN [self |-> self, out |-> Raised("dequeue", <<>>, "Empty")]
    ELSE LET oldhead == self._nodes[self._tail]._next
             unlinked == IF self._size = 1
                         THEN [self EXCEPT !._tail = None]
                         ELSE [self EXCEPT !._nodes[self._tail]._next =
                                               self._nodes[oldhead]._next]
         IN  [self |-> [unlinked EXCEPT !._size = self._size - 1],
              out |-> Returned("dequeue", <<>>, self._nodes[oldhead]._element)]

CircularQueue_enqueue(self, e) ==
    LET newest == Len(self._nodes) + 1
        heap == CircularQueue_Node(self._nodes, e, None)
        linked == IF CircularQueue_is_empty(self)
                  THEN [heap EXCEPT ![newest]._next = newest]
                  ELSE [heap EXCEPT ![newest]._next = heap[self._tail]._next,
                                    ![self._tail]._next = newest]
    IN  [self EXCEPT !._nodes = linked, !._tail = newest, !._size = self._size + 1]

CircularQueue_rotate_twice(self) ==
    IF self._size > 0
    THEN [self EXCEPT !._tail = self._nodes[self._nodes[self._tail]._next]._next]
    ELSE self

CircularQueue_rotate(self) ==
    IF self._size > 0
    THEN [self EXCEPT !._tail = self._nodes[self._tail]._next]
    ELSE self

CircularQueue_set(self) ==
    /\ CircularQueue_nodes' = self._nodes
    /\ CircularQueue_tail' = self._tail
    /\ CircularQueue_size' = self._size

CQ_enqueue(e) ==
    /\ container = "CircularQueue"
    /\ CircularQueue_set(CircularQueue_enqueue(CircularQueue_self, e))
    /\ ret' = Returned("enqueue", <<e>>, None)
    /\ UNCHANGED <<container, aqvars, lqvars, dqvars>>

CQ_dequeue ==
    /\ container = "CircularQueue"
    /\ LET r == CircularQueue_dequeue(CircularQueue_self)
       IN  CircularQueue_set(r.self) /\ ret' = r.out
    /\ UNCHANGED <<container, aqvars, lqvars, dqvars>>

CQ_first ==
    /\ container = "CircularQueue"
    /\ LET r == CircularQueue_first(CircularQueue_self)
       IN  CircularQueue_set(r.self) /\ ret' = r.out
    /\ UNCHANGED <<container, aqvars, lqvars, dqvars>>

CQ_rotate ==
    /\ container = "CircularQueue"
    /\ CircularQueue_set(CircularQueue_rotate(CircularQueue_self))
    /\ ret' = Returned("rotate", <<>>, None)
    /\ UNCHANGED <<container, aqvars, lqvars, dqvars>>

\* ============================================================ ArrayDeque
ArrayDeque_self ==
    [_data |-> ArrayDeque_data, _size |-> ArrayDeque_size,
     _front |-> ArrayDeque_front, _maxlen |-> ArrayDeque_maxlen]

\* a call: the object after it and its outcome
Ok(self, op, args, v) == [self |-> self, out |-> Returned(op, args, v)]
Fail(self, op, args, exc) == [self |-> self, out |-> Raised(op, args, exc)]

\* "not self._maxlen" holds for None and for 0, which the model identifies
ArrayDeque_init(maxlen) ==
    [_size |-> 0, _front |-> 0, _maxlen |-> maxlen,
     _data |-> IF maxlen = None \/ maxlen >= DEFAULT_CAPACITY
               THEN NoneList(DEFAULT_CAPACITY) ELSE NoneList(maxlen)]

ArrayDeque_is_empty(self) == self._size = 0

ArrayDeque_len(self) == self._size

ArrayDeque_is_full(self) == Len(self._data) = self._maxlen

\* the physical index __getitem__ and __setitem__ compute for an in-range i
ArrayDeque_index_from_front(self, i) ==
    (self._front + i) % Len(self._data)

ArrayDeque_index(self, i) ==
    IF i < 0 THEN (self._front + self._size + i) % Len(self._data)
    ELSE (self._front + i) % Len(self._data)

ArrayDeque_getitem(self, i) ==
    IF i < self._size * (-1) \/ i > self._size - 1
    THEN Fail(self, "getitem", <<i>>, "IndexError")
    ELSE Ok(self, "getitem", <<i>>, self._data[ArrayDeque_index(self, i) + 1])

ArrayDeque_setitem_off_by_one(self, i, v) ==
    IF i < self._size * (-1) \/ i > self._size
    THEN Fail(self, "setitem", <<i, v>>, "IndexError")
    ELSE Ok([self EXCEPT !._data[ArrayDeque_index(self, i) + 1] = v],
            "setitem", <<i, v>>, None)

ArrayDeque_setitem(self, i, v) ==
    IF i < self._size * (-1) \/ i > self._size - 1
    THEN Fail(self, "setitem", <<i, v>>, "IndexError")
    ELSE Ok([self EXCEPT !._data[ArrayDeque_index(self, i) + 1] = v],
            "setitem", <<i, v>>, None)

\* deque[0], ..., deque[len(deque) - 1] as __getitem__ returns them
Logical(self) ==
    [i \in 1 .. self._size |-> ArrayDeque_getitem(self, i - 1).out.val]

\* the loop of _resize; old[walk] raises IndexError when walk is no index of old
RECURSIVE ArrayDeque_resize_loop(_, _, _, _, _)
ArrayDeque_resize_loop(data, old, walk, k, size) ==
    IF k >= size THEN [data |-> data, err |-> FALSE]
    ELSE IF walk >= Len(old) THEN [data |-> data, err |-> TRUE]
    ELSE ArrayDeque_resize_loop([data EXCEPT ![k + 1] = old[walk + 1]], old,
                                (1 + walk) % Len(old), k + 1, size)

\* _resize(cap): the object after the call, and whether IndexError was raised
\* (then _data is already the new list and _front is not reset)
ArrayDeque_resize(self, cap) ==
    LET r == ArrayDeque_resize_loop(NoneList(cap), self._data,
                                    self._front, 0, self._size)
    IN  [self |-> [self EXCEPT !._data = r.data,
                               !._front = IF r.err THEN self._front ELSE 0],
         err |-> r.err]

\* "if self._size == len(self._data): self._resize(2 * len(self._data))"
ArrayDeque_grow_early(self) ==
    IF self._size >= Len(self._data) - 1
    THEN ArrayDeque_resize(self, 2 * Len(self._data))
    ELSE [self |-> self, err |-> FALSE]

ArrayDeque_grow(self) ==
    IF self._size = Len(self._data)
    THEN ArrayDeque_resize(self, 2 * Len(self._data))
    ELSE [self |-> self, err |-> FALSE]

ArrayDeque_add_first_overwrite(self, e) ==
    LET g == ArrayDeque_grow(self)
        front == (g.self._front - 1) % Len(g.self._data)
    IN  IF g.err THEN Fail(g.self, "add_first", <<e>>, "IndexError")
        ELSE Ok([g.self EXCEPT !._data[g.self._front + 1] = e, !._front = front,
                               !._size = g.self._size + 1],
                "add_first", <<e>>, None)

ArrayDeque_add_first(self, e) ==
    LET g == ArrayDeque_grow(self)
        front == (g.self._front - 1) % Len(g.self._data)
    IN  IF g.err THEN Fail(g.self, "add_first", <<e>>, "IndexError")
        ELSE Ok([g.self EXCEPT !._front = front, !._data[front + 1] = e,
                               !._size = g.self._size + 1],
                "add_first", <<e>>, None)

ArrayDeque_add_last(self, e) ==
    LET g == ArrayDeque_grow(self)
        last_in_line == (g.self._front + g.self._size) % Len(g.self._data)
    IN  IF g.err THEN Fail(g.self, "add_last", <<e>>, "IndexError")
        ELSE Ok([g.self EXCEPT !._data[last_in_line + 1] = e,
                               !._size = g.self._size + 1],
                "add_last", <<e>>, None)

ArrayDeque_clear_keep_data(self) ==
    Ok([self EXCEPT !._size = 0, !._front = 0,
                    !._data = NoneList(Len(self._data))],
       "clear", <<>>, None)

ArrayDeque_clear(self) ==
    Ok([self EXCEPT !._size = 0, !._front = 0,
                    !._data = IF self._maxlen = None \/ self._maxlen >= DEFAULT_CAPACITY
                              THEN NoneList(DEFAULT_CAPACITY)
                              ELSE NoneList(self._maxlen)],
       "clear", <<>>, None)

ArrayDeque_count(self, value) ==
    Cardinality({i \in 0 .. self._size - 1 :
                    self._data[((self._front + i) % Len(self._data)) + 1] = value})

\* delete_first(): self._data[self._front] raises IndexError when _front is
\* no index of _data
ArrayDeque_delete_first_keep_slot(self) ==
    IF ArrayDeque_is_empty(self) THEN Fail(self, "delete_first", <<>>, "Empty")
    ELSE IF self._front >= Len(self._data)
    THEN Fail(self, "delete_first", <<>>, "IndexError")
    ELSE Ok([self EXCEPT !._front = (self._front + 1) % Len(self._data),
                         !._size = self._size - 1],
            "delete_first", <<>>, self._data[self._front + 1])

ArrayDeque_delete_first(self) ==
    IF ArrayDeque_is_empty(self) THEN Fail(self, "delete_first", <<>>, "Empty")
    ELSE IF self._front >= Len(self._data)
    THEN Fail(self, "delete_first", <<>>, "IndexError")
    ELSE Ok([self EXCEPT !._data[self._front + 1] = None,
                         !._front = (self._front + 1) % Len(self._data),
                         !._size = self._size - 1],
            "delete_first", <<>>, self._data[self._front + 1])

ArrayDeque_delete_last_unchecked(self) ==
    LET last_in_line == (self._front + self._size - 1) % Len(self._data)
    IN  Ok([self EXCEPT !._data[last_in_line + 1] = None,
                        !._size = self._size - 1],
           "delete_last", <<>>, self._data[last_in_line + 1])

ArrayDeque_delete_last(self) ==
    IF ArrayDeque_is_empty(self) THEN Fail(self, "delete_last", <<>>, "Empty")
    ELSE LET last_in_line == (self._front + self._size - 1) % Len(self._data)
         IN  Ok([self EXCEPT !._data[last_in_line + 1] = None,
                             !._size = self._size - 1],
                "delete_last", <<>>, self._data[last_in_line + 1])

ArrayDeque_first(self) ==
    IF ArrayDeque_is_empty(self) THEN Fail(self, "first", <<>>, "Empty")
    ELSE IF self._front >= Len(self._data)
    THEN Fail(self, "first", <<>>, "IndexError")
    ELSE Ok(self, "first", <<>>, self._data[self._front + 1])

ArrayDeque_last(self) ==
    IF ArrayDeque_is_empty(self) THEN Fail(self, "last", <<>>, "Empty")
    ELSE LET last_in_line == (self._front + self._size - 1) % Len(self._data)
         IN  Ok(self, "last", <<>>, self._data[last_in_line + 1])

\* the scan of remove: the first logical index at or after i that holds
\* value, or -1 when the loop ends without a break
RECURSIVE ArrayDeque_remove_scan(_, _, _)
ArrayDeque_remove_scan(self, value, i) ==
    IF i >= self._size THEN -1
    ELSE IF self._data[((self._front + i) % Len(self._data)) + 1] = value THEN i
    ELSE ArrayDeque_remove_scan(self, value, i + 1)

\* "for i in range(i, self._size - 1, 1)": the body clears the last slot in
\* every iteration and _size is not changed
RECURSIVE ArrayDeque_remove_back(_, _, _)
ArrayDeque_remove_back(self, i, stop) ==
    IF i >= stop THEN self
    ELSE LET current == (self._front + i) % Len(self._data)
             next == (current + 1) % Len(self._data)
             last == (self._front + self._size - 1) % Len(self._data)
             shifted == [self._data EXCEPT ![current + 1] = self._data[next + 1]]
         IN  ArrayDeque_remove_back(
                 [self EXCEPT !._data = [shifted EXCEPT ![last + 1] = None]],
                 i + 1, stop)

\* "for i in range(i, 0, -1)": every iteration clears the front slot,
\* increments _front without a modulus and decrements _size;
\* self._data[self._front] = None raises IndexError when _front is no index
RECURSIVE ArrayDeque_remove_front(_, _)
ArrayDeque_remove_front(self, i) ==
    IF i <= 0 THEN [self |-> self, err |-> FALSE]
    ELSE LET current == (self._front + i) % Len(self._data)
             prev == (current - 1) % Len(self._data)
             shifted == [self EXCEPT !._data[current + 1] = self._data[prev + 1]]
         IN  IF self._front >= Len(self._data)
             THEN [self |-> shifted, err |-> TRUE]
             ELSE ArrayDeque_remove_front(
                      [shifted EXCEPT !._data[self._front + 1] = None,
                                      !._front = self._front + 1,
                                      !._size = self._size - 1],
                      i - 1)

ArrayDeque_remove_shift_first(self, value) ==
    LET i == ArrayDeque_remove_scan(self, value, 0)
        r == ArrayDeque_remove_front(self, IF i = -1 THEN self._size - 1 ELSE i)
    IN  IF i = -1 THEN Fail(r.self, "remove", <<value>>, "ValueError")
        ELSE IF i > self._size \div 2
        THEN Ok(ArrayDeque_remove_back(self, i, self._size - 1),
                "remove", <<value>>, None)
        ELSE IF r.err THEN Fail(r.self, "remove", <<value>>, "IndexError")
        ELSE Ok(r.self, "remove", <<value>>, None)

ArrayDeque_remove(self, value) ==
    LET i == ArrayDeque_remove_scan(self, value, 0)
    IN  IF i = -1 THEN Fail(self, "remove", <<value>>, "ValueError")
        ELSE IF i > self._size \div 2
        THEN Ok(ArrayDeque_remove_back(self, i, self._size - 1),
                "remove", <<value>>, None)
        ELSE LET r == ArrayDeque_remove_front(self, i)
             IN  IF r.err THEN Fail(r.self, "remove", <<value>>, "IndexError")
                 ELSE Ok(r.self, "remove", <<value>>, None)

\* "for step in range(n): self.add_first(self.delete_last())"; an exception
\* of either call ends rotate
RECURSIVE ArrayDeque_rotate_right(_, _)
ArrayDeque_rotate_right(self, steps) ==
    IF steps <= 0 THEN [self |-> self, kind |-> "ok"]
    ELSE LET d == ArrayDeque_delete_last(self)
             a == ArrayDeque_add_first(d.self, d.out.val)
         IN  IF d.out.kind # "ok" THEN [self |-> d.self, kind |-> d.out.kind]
             ELSE IF a.out.kind # "ok" THEN [self |-> a.self, kind |-> a.out.kind]
             ELSE ArrayDeque_rotate_right(a.self, steps - 1)

\* "for step in range(abs(n)): self.add_last(self.delete_first())"
RECURSIVE ArrayDeque_rotate_left(_, _)
ArrayDeque_rotate_left(self, steps) ==
    IF steps <= 0 THEN [self |-> self, kind |-> "ok"]
    ELSE LET d == ArrayDeque_delete_first(self)
             a == ArrayDeque_add_last(d.self, d.out.val)
         IN  IF d.out.kind # "ok" THEN [self |-> d.self, kind |-> d.out.kind]
             ELSE IF a.out.kind # "ok" THEN [self |-> a.self, kind |-> a.out.kind]
             ELSE ArrayDeque_rotate_left(a.self, steps - 1)

ArrayDeque_rotate(self, n) ==
    LET r == IF n >= 0 THEN ArrayDeque_rotate_right(self, n)
             ELSE ArrayDeque_rotate_left(self, -n)
    IN  IF r.kind = "ok" THEN Ok(r.self, "rotate", <<n>>, None)
        ELSE Fail(r.self, "rotate", <<n>>, r.kind)

\* the object is replaced by the outcome of a call and the call is recorded
ArrayDeque_call(r) ==
    /\ container = "ArrayDeque"
    /\ ArrayDeque_data' = r.self._data
    /\ ArrayDeque_size' = r.self._size
    /\ ArrayDeque_front' = r.self._front
    /\ ArrayDeque_maxlen' = r.self._maxlen
    /\ ret' = r.out
    /\ UNCHANGED <<container, aqvars, lqvars, cqvars>>

DQ_add_first(e) == ArrayDeque_call(ArrayDeque_add_first(ArrayDeque_self, e))

DQ_add_last(e) == ArrayDeque_call(ArrayDeque_add_last(ArrayDeque_self, e))

DQ_delete_first == ArrayDeque_call(ArrayDeque_delete_first(ArrayDeque_self))

DQ_delete_last == ArrayDeque_call(ArrayDeque_delete_last(ArrayDeque_self))

DQ_first == ArrayDeque_call(ArrayDeque_first(ArrayDeque_self))

DQ_last == ArrayDeque_call(ArrayDeque_last(ArrayDeque_self))

DQ_clear == ArrayDeque_call(ArrayDeque_clear(ArrayDeque_self))

DQ_rotate(n) == ArrayDeque_call(ArrayDeque_rotate(ArrayDeque_self, n))

DQ_remove(value) == ArrayDeque_call(ArrayDeque_remove(ArrayDeque_self, value))

DQ_getitem(i) == ArrayDeque_call(ArrayDeque_getitem(ArrayDeque_self, i))

DQ_setitem(i, v) == ArrayDeque_call(ArrayDeque_setitem(ArrayDeque_self, i, v))

DQ_count(value) ==
    ArrayDeque_call(Ok(ArrayDeque_self, "count", <<value>>,
                       ArrayDeque_count(ArrayDeque_self, value)))

DQ_len ==
    ArrayDeque_call(Ok(ArrayDeque_self, "len", <<>>, ArrayDeque_len(ArrayDeque_self)))

\* is_full() returns a bool, recorded as 1 (True) or 0 (False)
DQ_is_full ==
    ArrayDeque_call(Ok(ArrayDeque_self, "is_full", <<>>,
                       IF ArrayDeque_is_full(ArrayDeque_self) THEN 1 ELSE 0))

\* ===================================================== the specifications
\* One object of one class is constructed and then called any number of times.
Construct(c, maxlen) ==
    /\ container = c
    /\ ArrayQueue_data = ArrayQueue_init._data
    /\ ArrayQueue_size = ArrayQueue_init._size
    /\ ArrayQueue_front = ArrayQueue_init._front
    /\ LinkedQueue_nodes = LinkedQueue_init._nodes
    /\ LinkedQueue_head = LinkedQueue_init._head
    /\ LinkedQueue_tail = LinkedQueue_init._tail
    /\ LinkedQueue_size = LinkedQueue_init._size
    /\ CircularQueue_nodes = CircularQueue_init._nodes
    /\ CircularQueue_tail = CircularQueue_init._tail
    /\ CircularQueue_size = CircularQueue_init._size
    /\ ArrayDeque_data = ArrayDeque_init(maxlen)._data
    /\ ArrayDeque_size = ArrayDeque_init(maxlen)._size
    /\ ArrayDeque_front = ArrayDeque_init(maxlen)._front
    /\ ArrayDeque_maxlen = ArrayDeque_init(maxlen)._maxlen
    /\ ret = Returned("init", <<>>, None)
    /\ enqueued = <<>>
    /\ n_dequeued = 0
    /\ S = <<>>
    /\ n_ins = 0
    /\ n_rem = 0

\* the logical indices offered to __getitem__ and __setitem__: every valid
\* one and those just beyond each end
Indices == (0 - ArrayDeque_size - 1) .. ArrayDeque_size

\* ---- Spec: any class, every operation
Init ==
    \/ \E c \in Containers \ {"ArrayDeque"} : Construct(c, None)
    \/ \E maxlen \in MaxLens : Construct("ArrayDeque", maxlen)

ArrayQueueNext ==
    \/ \E e \in Values : ArrayQueue_size < MaxSize /\ AQ_enqueue(e)
    \/ AQ_dequeue
    \/ AQ_first

LinkedQueueNext ==
    \/ \E e \in Values : Len(LinkedQueue_nodes) < MaxNodes /\ LQ_enqueue(e)
    \/ LQ_dequeue
    \/ LQ_first

CircularQueueNext ==
    \/ \E e \in Values : Len(CircularQueue_nodes) < MaxNodes /\ CQ_enqueue(e)
    \/ CQ_dequeue
    \/ CQ_first
    \/ CQ_rotate

\* add_first, add_last, delete_first, delete_last, first, last
ArrayDequeEnds ==
    \/ \E e \in Values : ArrayDeque_size < MaxSize /\ DQ_add_first(e)
    \/ \E e \in Values : ArrayDeque_size < MaxSize /\ DQ_add_last(e)
    \/ DQ_delete_first
    \/ DQ_delete_last
    \/ DQ_first
    \/ DQ_last

ArrayDequeNext ==
    \/ ArrayDequeEnds
    \/ DQ_clear
    \/ \E n \in (0 - MaxRot) .. MaxRot : DQ_rotate(n)
    \/ \E value \in Values : DQ_remove(value)
    \/ \E i \in Indices : DQ_getitem(i)
    \/ \E i \in Indices, v \in Values : DQ_setitem(i, v)
    \/ \E value \in Values : DQ_count(value)
    \/ DQ_len
    \/ DQ_is_full

Next ==
    \/ ArrayQueueNext /\ UNCHANGED obsvars
    \/ LinkedQueueNext /\ UNCHANGED obsvars
    \/ CircularQueueNext /\ UNCHANGED obsvars
    \/ ArrayDequeNext /\ UNCHANGED obsvars

Spec == Init /\ [][Next]_vars

\* ---- SpecArrayQueueFifo: an ArrayQueue is given the labelled elements
\* 1, 2, 3, ... and the observer records what was enqueued and how many
\* dequeues succeeded
InitArrayQueueFifo == Construct("ArrayQueue", None)

FifoEnqueue ==
    /\ Len(enqueued) < MaxEnq
    /\ AQ_enqueue(Len(enqueued) + 1)
    /\ enqueued' = Append(enqueued, Len(enqueued) + 1)
    /\ UNCHANGED <<n_dequeued, S, n_ins, n_rem>>

FifoDequeue ==
    /\ AQ_dequeue
    /\ n_dequeued' = IF ret'.kind = "ok" THEN n_dequeued + 1 ELSE n_dequeued
    /\ UNCHANGED <<enqueued, S, n_ins, n_rem>>

NextArrayQueueFifo == FifoEnqueue \/ FifoDequeue

SpecArrayQueueFifo == InitArrayQueueFifo /\ [][NextArrayQueueFifo]_vars

\* ---- SpecArrayDequeEnds: an ArrayDeque is called at its two ends and the
\* observer applies every successful call to the reference sequence S
InitArrayDeque == \E maxlen \in MaxLens : Construct("ArrayDeque", maxlen)

RefAddFirst ==
    /\ \E e \in Values :
          /\ ArrayDeque_size < MaxDeque
          /\ DQ_add_first(e)
          /\ S' = IF ret'.kind = "ok" THEN <<e>> \o S ELSE S
    /\ UNCHANGED <<enqueued, n_dequeued, n_ins, n_rem>>

RefAddLast ==
    /\ \E e \in Values :
          /\ ArrayDeque_size < MaxDeque
          /\ DQ_add_last(e)
          /\ S' = IF ret'.kind = "ok" THEN Append(S, e) ELSE S
    /\ UNCHANGED <<enqueued, n_dequeued, n_ins, n_rem>>

RefDeleteFirst ==
    /\ DQ_delete_first
    /\ S' = IF ret'.kind = "ok" /\ S # <<>> THEN Tail(S) ELSE S
    /\ UNCHANGED <<enqueued, n_dequeued, n_ins, n_rem>>

RefDeleteLast ==
    /\ DQ_delete_last
    /\ S' = IF ret'.kind = "ok" /\ S # <<>> THEN SubSeq(S, 1, Len(S) - 1) ELSE S
    /\ UNCHANGED <<enqueued, n_dequeued, n_ins, n_rem>>

RefFirst == DQ_first /\ UNCHANGED obsvars

RefLast == DQ_last /\ UNCHANGED obsvars

NextArrayDequeEnds ==
    \/ RefAddFirst
    \/ RefAddLast
    \/ RefDeleteFirst
    \/ RefDeleteLast
    \/ RefFirst
    \/ RefLast

SpecArrayDequeEnds == InitArrayDeque /\ [][NextArrayDequeEnds]_vars

\* ---- SpecArrayDequeCount: the observer counts the insertions and the
\* removals (remove(value) included) that did not raise
Counted == n_ins + n_rem < MaxOps

CountInsertion ==
    /\ n_ins' = IF ret'.kind = "ok" THEN n_ins + 1 ELSE n_ins
    /\ UNCHANGED <<enqueued, n_dequeued, S, n_rem>>

CountRemoval ==
    /\ n_rem' = IF ret'.kind = "ok" THEN n_rem + 1 ELSE n_rem
    /\ UNCHANGED <<enqueued, n_dequeued, S, n_ins>>

CountAddFirst == \E e \in Values : Counted /\ DQ_add_first(e) /\ CountInsertion

CountAddLast == \E e \in Values : Counted /\ DQ_add_last(e) /\ CountInsertion

CountDeleteFirst == Counted /\ DQ_delete_first /\ CountRemoval

CountDeleteLast == Counted /\ DQ_delete_last /\ CountRemoval

CountRemove == \E value \in Values : Counted /\ DQ_remove(value) /\ CountRemoval

NextArrayDequeCount ==
    \/ CountAddFirst
    \/ CountAddLast
    \/ CountDeleteFirst
    \/ CountDeleteLast
    \/ CountRemove

SpecArrayDequeCount == InitArrayDeque /\ [][NextArrayDequeCount]_vars

\* ---- SpecArrayDequeBasic: an ArrayDeque called at its ends, rotated,
\* cleared and asked for its length and fullness (no remove, no __setitem__)
NextArrayDequeBasic ==
    \/ ArrayDequeEnds /\ UNCHANGED obsvars
    \/ DQ_clear /\ UNCHANGED obsvars
    \/ \E n \in (0 - MaxRot) .. MaxRot : DQ_rotate(n) /\ UNCHANGED obsvars
    \/ DQ_len /\ UNCHANGED obsvars
    \/ DQ_is_full /\ UNCHANGED obsvars

SpecArrayDequeBasic == InitArrayDeque /\ [][NextArrayDequeBasic]_vars

\* ================================================================ claims
\* C1: the k-th successful dequeue() of an ArrayQueue returns the k-th
\* element that was enqueued, across wrap-around and capacity doublings.
C1_FifoOrder ==
    (ret.op = "dequeue" /\ ret.kind = "ok") => ret.val = enqueued[n_dequeued]

\* a dequeue succeeded on a buffer that has doubled twice
C1_Witness ==
    /\ ret.op = "dequeue" /\ ret.kind = "ok"
    /\ Len(ArrayQueue_data) = 4 * DEFAULT_CAPACITY
    /\ n_dequeued > 1

\* C2: under any interleaving of add_first, add_last, delete_first and
\* delete_last the ArrayDeque behaves like the reference sequence S: its
\* length and logical content are those of S, on a non-empty deque first()
\* and last() return the head and the tail of S, and delete_first() and
\* delete_last() return exactly those elements (the successor state is again
\* S with that element removed).
C2_RefinesSequence ==
    /\ ArrayDeque_len(ArrayDeque_self) = Len(S)
    /\ Logical(ArrayDeque_self) = S
    /\ S # <<>> =>
          /\ ArrayDeque_first(ArrayDeque_self).out = Returned("first", <<>>, S[1])
          /\ ArrayDeque_last(ArrayDeque_self).out = Returned("last", <<>>, S[Len(S)])
          /\ ArrayDeque_delete_first(ArrayDeque_self).out
                = Returned("delete_first", <<>>, S[1])
          /\ ArrayDeque_delete_last(ArrayDeque_self).out
                = Returned("delete_last", <<>>, S[Len(S)])
    /\ (ret.op = "delete_first" /\ S # <<>>) =>
          ArrayDeque_first(ArrayDeque_self).out.val = S[1]

\* a delete_first() returned 1 and left a deque whose live region wraps around
\* the end of the buffer, with different elements at its two ends
C2_Witness ==
    /\ ret = Returned("delete_first", <<>>, 1)
    /\ Len(S) >= 2
    /\ S[1] # S[Len(S)]
    /\ ArrayDeque_front + ArrayDeque_size > Len(ArrayDeque_data)

\* seq without the first occurrence of v
DropFirst(seq, v) ==
    LET at == {k \in 1 .. Len(seq) : seq[k] = v}
        first == CHOOSE k \in at : \A j \in at : k <= j
    IN  IF at = {} THEN seq
        ELSE SubSeq(seq, 1, first - 1) \o SubSeq(seq, first + 1, Len(seq))

\* C3: len(deque) equals the number of insertions that did not raise minus
\* the number of removals that did not raise, every remove(value) that
\* returns counting as one removal.
C3_LenIsInsertionsMinusRemovals ==
    ArrayDeque_len(ArrayDeque_self) = n_ins - n_rem

\* C4: a remove(value) that finds value deletes exactly its first logical
\* occurrence: the logical sequence afterwards is the previous one with that
\* occurrence dropped, and count(value) is lower by 1.
C4_RemoveDropsFirstOccurrence ==
    [][(ret'.op = "remove" /\ ArrayDeque_count(ArrayDeque_self, ret'.args[1]) >= 1)
          => /\ ret'.kind = "ok"
             /\ Logical(ArrayDeque_self')
                   = DropFirst(Logical(ArrayDeque_self), ret'.args[1])
             /\ ArrayDeque_count(ArrayDeque_self', ret'.args[1])
                   = ArrayDeque_count(ArrayDeque_self, ret'.args[1]) - 1]_vars

\* C5: on a container that holds no elements dequeue() and first() of
\* ArrayQueue, LinkedQueue and CircularQueue, and delete_first(),
\* delete_last(), first() and last() of ArrayDeque raise Empty and leave the
\* whole object unchanged.
C5_EmptyRaisesAndKeepsState ==
    [][/\ (container = "ArrayQueue" /\ ArrayQueue_size = 0
             /\ ret'.op \in {"dequeue", "first"})
            => (ret'.kind = "Empty" /\ UNCHANGED aqvars)
       /\ (container = "LinkedQueue" /\ LinkedQueue_size = 0
             /\ ret'.op \in {"dequeue", "first"})
            => (ret'.kind = "Empty" /\ UNCHANGED lqvars)
       /\ (container = "CircularQueue" /\ CircularQueue_size = 0
             /\ ret'.op \in {"dequeue", "first"})
            => (ret'.kind = "Empty" /\ UNCHANGED cqvars)
       /\ (container = "ArrayDeque" /\ ArrayDeque_size = 0
             /\ ret'.op \in {"delete_first", "delete_last", "first", "last"})
            => (ret'.kind = "Empty" /\ UNCHANGED dqvars)]_vars

\* delete_last() raised Empty on a deque that was emptied after its front had
\* moved
C5_Witness ==
    /\ container = "ArrayDeque"
    /\ ret = Raised("delete_last", <<>>, "Empty")
    /\ ArrayDeque_size = 0
    /\ ArrayDeque_front # 0

\* C6: for a deque of size n, deque[i] and deque[i] = v raise IndexError and
\* leave the object unchanged when i < -n or i > n - 1, and neither raises
\* when -n <= i <= n - 1.
C6_IndexErrorExactlyOutOfRange ==
    [][ret'.op \in {"getitem", "setitem"}
          => IF ret'.args[1] < 0 - ArrayDeque_size \/ ret'.args[1] > ArrayDeque_size - 1
             THEN ret'.kind = "IndexError" /\ UNCHANGED dqvars
             ELSE ret'.kind = "ok"]_vars

\* deque[i] = v raised IndexError for the index just past the end of a
\* non-empty deque
C6_Witness ==
    /\ ret.op = "setitem"
    /\ ret.kind = "IndexError"
    /\ ArrayDeque_size > 0
    /\ ret.args[1] = ArrayDeque_size

\* C7: remove(value) on a deque that holds no element equal to value raises
\* ValueError and leaves storage, front and size as they were.
C7_FailedRemoveKeepsState ==
    [][(ret'.op = "remove" /\ ArrayDeque_count(ArrayDeque_self, ret'.args[1]) = 0)
          => (ret'.kind = "ValueError" /\ UNCHANGED dqvars)]_vars

\* remove(value) raised ValueError on a non-empty deque
C7_Witness ==
    /\ ret.op = "remove"
    /\ ret.kind = "ValueError"
    /\ ArrayDeque_size >= 2

\* C8: with maxlen = m the capacity len(_data) never exceeds m.
C8_CapacityWithinMaxlen ==
    ArrayDeque_maxlen # None => Len(ArrayDeque_data) <= ArrayDeque_maxlen

\* C9: is_full() is True exactly when the deque has a maxlen and holds maxlen
\* elements.
C9_IsFullIffHoldsMaxlen ==
    ArrayDeque_is_full(ArrayDeque_self)
        <=> (ArrayDeque_maxlen # None
               /\ ArrayDeque_len(ArrayDeque_self) = ArrayDeque_maxlen)

\* C10: for every k, rotate(k) followed by rotate(-k) completes and restores
\* the logical order and the length, the empty deque included.
C10_RotateRoundTrip ==
    \A k \in (0 - MaxRot) .. MaxRot :
        LET there == ArrayDeque_rotate(ArrayDeque_self, k)
            back == ArrayDeque_rotate(there.self, 0 - k)
        IN  /\ there.out.kind = "ok"
            /\ back.out.kind = "ok"
            /\ Logical(back.self) = Logical(ArrayDeque_self)
            /\ ArrayDeque_len(back.self) = ArrayDeque_len(ArrayDeque_self)

\* C11: on a non-empty deque of size n, deque[-j] is the same slot and the
\* same element as deque[n - j] for every 1 <= j <= n, deque[0] is what
\* first() returns and deque[-1] is what last() returns.
C11_NegativeIndexing ==
    ArrayDeque_size > 0 =>
        /\ \A j \in 1 .. ArrayDeque_size :
              /\ ArrayDeque_index(ArrayDeque_self, 0 - j)
                    = ArrayDeque_index(ArrayDeque_self, ArrayDeque_size - j)
              /\ ArrayDeque_getitem(ArrayDeque_self, 0 - j).out.kind = "ok"
              /\ ArrayDeque_getitem(ArrayDeque_self, 0 - j).out.val
                    = ArrayDeque_getitem(ArrayDeque_self, ArrayDeque_size - j).out.val
        /\ ArrayDeque_first(ArrayDeque_self).out
              = Returned("first", <<>>, ArrayDeque_getitem(ArrayDeque_self, 0).out.val)
        /\ ArrayDeque_last(ArrayDeque_self).out
              = Returned("last", <<>>, ArrayDeque_getitem(ArrayDeque_self, 0 - 1).out.val)

\* C12: add_last(e) and add_first(e) on a deque whose size equals its capacity
\* return normally and keep the stored elements in their logical order, with
\* e after them (add_last) or before them (add_first).
C12_ResizeKeepsOrder ==
    [][(ret'.op \in {"add_last", "add_first"}
          /\ ArrayDeque_size = Len(ArrayDeque_data))
          => /\ ret'.kind = "ok"
             /\ Logical(ArrayDeque_self')
                   = IF ret'.op = "add_last"
                     THEN Append(Logical(ArrayDeque_self), ret'.args[1])
                     ELSE <<ret'.args[1]>> \o Logical(ArrayDeque_self)]_vars

\* ---- SpecLinkedQueueFifo: a LinkedQueue is enqueued and dequeued and the
\* observer records what was enqueued and how many dequeues succeeded
InitLinkedQueueFifo == Construct("LinkedQueue", None)

LinkedFifoEnqueue ==
    /\ \E e \in Values :
          /\ Len(LinkedQueue_nodes) < MaxNodes
          /\ LQ_enqueue(e)
          /\ enqueued' = Append(enqueued, e)
    /\ UNCHANGED <<n_dequeued, S, n_ins, n_rem>>

LinkedFifoDequeue ==
    /\ LQ_dequeue
    /\ n_dequeued' = IF ret'.kind = "ok" THEN n_dequeued + 1 ELSE n_dequeued
    /\ UNCHANGED <<enqueued, S, n_ins, n_rem>>

LinkedFifoFirst == LQ_first /\ UNCHANGED obsvars

NextLinkedQueueFifo == LinkedFifoEnqueue \/ LinkedFifoDequeue \/ LinkedFifoFirst

SpecLinkedQueueFifo == InitLinkedQueueFifo /\ [][NextLinkedQueueFifo]_vars

\* C13: the k-th successful dequeue() of a LinkedQueue returns the k-th
\* enqueued element, also after the queue was emptied and refilled, and
\* first() returns the element the next dequeue() returns.
C13_LinkedFifoOrder ==
    /\ LinkedQueue_len(LinkedQueue_self) = Len(enqueued) - n_dequeued
    /\ (ret.op = "dequeue" /\ ret.kind = "ok") => ret.val = enqueued[n_dequeued]
    /\ (ret.op = "first" /\ ret.kind = "ok") => ret.val = enqueued[n_dequeued + 1]
    /\ LinkedQueue_size > 0 =>
          /\ LinkedQueue_first(LinkedQueue_self).out
                = Returned("first", <<>>, enqueued[n_dequeued + 1])
          /\ LinkedQueue_dequeue(LinkedQueue_self).out
                = Returned("dequeue", <<>>, enqueued[n_dequeued + 1])

\* a dequeue succeeded on a queue that had been emptied (an earlier node,
\* not the tail, was never linked to a successor) and refilled
C13_Witness ==
    /\ ret.op = "dequeue" /\ ret.kind = "ok"
    /\ \E k \in 1 .. Len(LinkedQueue_nodes) :
          /\ k # LinkedQueue_tail
          /\ LinkedQueue_nodes[k]._next = None
          /\ n_dequeued > k
    /\ LinkedQueue_size > 0

\* ---- SpecCircularQueue: a CircularQueue under all its operations
InitCircularQueue == Construct("CircularQueue", None)

NextCircularQueue == CircularQueueNext /\ UNCHANGED obsvars

SpecCircularQueue == InitCircularQueue /\ [][NextCircularQueue]_vars

\* the elements met on the ring from node on, k of them
RECURSIVE CircularQueue_walk(_, _, _)
CircularQueue_walk(nodes, node, k) ==
    IF k <= 0 THEN <<>>
    ELSE <<nodes[node]._element>> \o CircularQueue_walk(nodes, nodes[node]._next, k - 1)

\* the logical order of a CircularQueue: _size elements from the head, which
\* is _tail._next
CircularQueue_order(self) ==
    IF self._size <= 0 THEN <<>>
    ELSE CircularQueue_walk(self._nodes, self._nodes[self._tail]._next, self._size)

\* <<e2, ..., en, e1>> for <<e1, e2, ..., en>>
FrontToBack(seq) == IF seq = <<>> THEN <<>> ELSE Tail(seq) \o <<Head(seq)>>

\* C14: rotate() turns the logical order e1, e2, ..., en of a CircularQueue
\* into e2, ..., en, e1 with the size unchanged, which is the order
\* enqueue(dequeue()) yields; on the empty queue it changes nothing and
\* raises nothing; every dequeue() returns the head of the current order.
C14_RotateMovesFrontToBack ==
    [][/\ ret'.op = "rotate" =>
             /\ ret'.kind = "ok"
             /\ CircularQueue_size' = CircularQueue_size
             /\ CircularQueue_order(CircularQueue_self')
                   = FrontToBack(CircularQueue_order(CircularQueue_self))
             /\ CircularQueue_size = 0 => UNCHANGED cqvars
             /\ CircularQueue_size > 0 =>
                   LET d == CircularQueue_dequeue(CircularQueue_self)
                   IN  CircularQueue_order(CircularQueue_self')
                          = CircularQueue_order(CircularQueue_enqueue(d.self, d.out.val))
       /\ (ret'.op = "dequeue" /\ CircularQueue_size > 0) =>
             /\ ret'.kind = "ok"
             /\ ret'.val = Head(CircularQueue_order(CircularQueue_self))
             /\ CircularQueue_order(CircularQueue_self')
                   = Tail(CircularQueue_order(CircularQueue_self))]_vars

\* rotate() has moved the front of a queue of at least three elements to its
\* back, where it differs from the new front
C14_Witness ==
    /\ ret.op = "rotate"
    /\ CircularQueue_size >= 3
    /\ Head(CircularQueue_order(CircularQueue_self))
          # CircularQueue_order(CircularQueue_self)[CircularQueue_size]

\* C15: in every state of an ArrayDeque 0 <= size <= capacity and
\* 0 <= front < capacity, so first() and delete_first() on a non-empty deque
\* read a valid slot.
C15_SizeAndFrontInRange ==
    /\ 0 <= ArrayDeque_size
    /\ ArrayDeque_size <= Len(ArrayDeque_data)
    /\ 0 <= ArrayDeque_front
    /\ ArrayDeque_front < Len(ArrayDeque_data)
    /\ ArrayDeque_size > 0 =>
          /\ ArrayDeque_first(ArrayDeque_self).out.kind = "ok"
          /\ ArrayDeque_delete_first(ArrayDeque_self).out.kind = "ok"

\* the physical positions of the live region
LiveSlots(self) ==
    {(self._front + i) % Len(self._data) : i \in 0 .. self._size - 1}

\* C16: when only elements other than None are stored, exactly the size
\* slots at the positions (front + i) mod capacity, 0 <= i < size, hold
\* elements and every other slot holds None.
C16_LiveSlotsHoldElements ==
    /\ Cardinality(LiveSlots(ArrayDeque_self)) = ArrayDeque_size
    /\ \A p \in 0 .. Len(ArrayDeque_data) - 1 :
          (ArrayDeque_data[p + 1] # None) <=> (p \in LiveSlots(ArrayDeque_self))

\* ---- SpecCapacity: an ArrayQueue, or an ArrayDeque without maxlen, is
\* filled with one and the same element and emptied at its ends; the
\* observer counts the insertions and removals
InitCapacity ==
    \/ Construct("ArrayQueue", None)
    \/ Construct("ArrayDeque", None)

CapEnqueue ==
    /\ n_ins < MaxEnq
    /\ AQ_enqueue(1)
    /\ CountInsertion

CapDequeue == AQ_dequeue /\ CountRemoval

CapAddFirst ==
    /\ n_ins < MaxEnq
    /\ DQ_add_first(1)
    /\ CountInsertion

CapAddLast ==
    /\ n_ins < MaxEnq
    /\ DQ_add_last(1)
    /\ CountInsertion

CapDeleteFirst == DQ_delete_first /\ CountRemoval

CapDeleteLast == DQ_delete_last /\ CountRemoval

NextCapacity ==
    \/ CapEnqueue
    \/ CapDequeue
    \/ CapAddFirst
    \/ CapAddLast
    \/ CapDeleteFirst
    \/ CapDeleteLast

SpecCapacity == InitCapacity /\ [][NextCapacity]_vars

\* len(self._data) and len(self) of the object under test
Capacity ==
    IF container = "ArrayQueue" THEN Len(ArrayQueue_data) ELSE Len(ArrayDeque_data)

Held ==
    IF container = "ArrayQueue" THEN ArrayQueue_len(ArrayQueue_self)
    ELSE ArrayDeque_len(ArrayDeque_self)

\* C17: for an ArrayQueue and an ArrayDeque without maxlen the capacity
\* starts at 10; an insertion changes it exactly when size == capacity before
\* the call, and then to twice the old capacity; a removal never changes it
\* and it never shrinks; 11 insertions into a fresh container give capacity
\* 20 after exactly one resize.
C17_CapacityDoublesWhenFull ==
    [][/\ n_ins = 0 => Capacity = DEFAULT_CAPACITY
       /\ ret'.op \in {"enqueue", "add_first", "add_last"} =>
             /\ (Capacity' # Capacity) <=> (Held = Capacity)
             /\ Held = Capacity => Capacity' = 2 * Capacity
       /\ ret'.op \in {"dequeue", "delete_first", "delete_last"} =>
             Capacity' = Capacity
       /\ Capacity' >= Capacity
       /\ n_ins' <= DEFAULT_CAPACITY => Capacity' = DEFAULT_CAPACITY
       /\ (n_ins' = DEFAULT_CAPACITY + 1 /\ n_rem' = 0) =>
             Capacity' = 2 * DEFAULT_CAPACITY]_vars

\* the eleventh insertion into a fresh ArrayDeque was an add_first and the
\* capacity is 20
C17_Witness ==
    /\ container = "ArrayDeque"
    /\ ret.op = "add_first"
    /\ n_ins = DEFAULT_CAPACITY + 1
    /\ n_rem = 0
    /\ Capacity = 2 * DEFAULT_CAPACITY

\* C18: after clear(), called in any reachable state, the deque equals a
\* freshly constructed ArrayDeque with the same maxlen: size 0, front 0,
\* every slot None, capacity 10 when maxlen is unset or >= 10 and maxlen
\* otherwise, maxlen unchanged; clear() never raises.
C18_ClearEqualsFresh ==
    [][ret'.op = "clear" =>
          /\ ret'.kind = "ok"
          /\ ArrayDeque_self' = ArrayDeque_init(ArrayDeque_maxlen)
          /\ ArrayDeque_size' = 0
          /\ ArrayDeque_front' = 0
          /\ ArrayDeque_maxlen' = ArrayDeque_maxlen
          /\ ArrayDeque_data' =
                NoneList(IF ArrayDeque_maxlen = None
                            \/ ArrayDeque_maxlen >= DEFAULT_CAPACITY
                         THEN DEFAULT_CAPACITY ELSE ArrayDeque_maxlen)]_vars

\* clear() has just returned on a deque of maxlen 2, whose capacity is 2
\* again whatever it had grown to
C18_Witness ==
    /\ container = "ArrayDeque"
    /\ ret.op = "clear"
    /\ ArrayDeque_maxlen = 2
    /\ Len(ArrayDeque_data) = 2
    /\ ArrayDeque_size = 0

\* ---- SpecQueueAsDeque: an ArrayQueue and an ArrayDeque without maxlen are
\* constructed side by side and driven in lockstep, enqueue with add_last,
\* dequeue with delete_first, first with first; the k-th element is k and
\* ret holds the deque's outcome
InitQueueAsDeque == Construct("ArrayQueue+ArrayDeque", None)

ArrayDeque_set(self) ==
    /\ ArrayDeque_data' = self._data
    /\ ArrayDeque_size' = self._size
    /\ ArrayDeque_front' = self._front
    /\ ArrayDeque_maxlen' = self._maxlen

BothEnqueue ==
    /\ Len(enqueued) < MaxEnq
    /\ LET e == Len(enqueued) + 1
           d == ArrayDeque_add_last(ArrayDeque_self, e)
       IN  /\ ArrayQueue_set(ArrayQueue_enqueue(ArrayQueue_self, e))
           /\ ArrayDeque_set(d.self)
           /\ ret' = d.out
           /\ enqueued' = Append(enqueued, e)
    /\ UNCHANGED <<container, lqvars, cqvars, n_dequeued, S, n_ins, n_rem>>

BothDequeue ==
    /\ LET q == ArrayQueue_dequeue(ArrayQueue_self)
           d == ArrayDeque_delete_first(ArrayDeque_self)
       IN  /\ ArrayQueue_set(q.self)
           /\ ArrayDeque_set(d.self)
           /\ ret' = d.out
           /\ n_dequeued' = IF q.out.kind = "ok" THEN n_dequeued + 1
                            ELSE n_dequeued
    /\ UNCHANGED <<container, lqvars, cqvars, enqueued, S, n_ins, n_rem>>

BothFirst ==
    /\ ret' = ArrayDeque_first(ArrayDeque_self).out
    /\ UNCHANGED <<container, aqvars, lqvars, cqvars, dqvars, obsvars>>

NextQueueAsDeque == BothEnqueue \/ BothDequeue \/ BothFirst

SpecQueueAsDeque == InitQueueAsDeque /\ [][NextQueueAsDeque]_vars

\* two outcomes agree: both return the same value or both raise the same
\* exception
SameOutcome(a, b) == a.kind = b.kind /\ a.val = b.val

\* C19: an ArrayDeque without maxlen driven only through add_last,
\* delete_first and first behaves as the ArrayQueue driven through enqueue,
\* dequeue and first: after every step the two hold equal size, front and
\* buffer (so also across resizes), and from every such state first() and
\* dequeue()/delete_first() return the same value or raise Empty on both.
C19_DequeRefinesQueue ==
    /\ ArrayDeque_data = ArrayQueue_data
    /\ ArrayDeque_size = ArrayQueue_size
    /\ ArrayDeque_front = ArrayQueue_front
    /\ ArrayDeque_maxlen = None
    /\ SameOutcome(ArrayDeque_first(ArrayDeque_self).out,
                   ArrayQueue_first(ArrayQueue_self).out)
    /\ SameOutcome(ArrayDeque_delete_first(ArrayDeque_self).out,
                   ArrayQueue_dequeue(ArrayQueue_self).out)
    /\ ArrayQueue_first(ArrayQueue_self).out.kind = "Empty"
          <=> ArrayQueue_size = 0
    /\ ret.op = "delete_first" =>
          \/ ret.kind = "Empty" /\ n_dequeued = Len(enqueued)
          \/ ret.kind = "ok" /\ ret.val = enqueued[n_dequeued]

\* both buffers were resized to 20 and the live region wraps around the end
\* of the buffer right after a delete_first/dequeue pair
C19_Witness ==
    /\ container = "ArrayQueue+ArrayDeque"
    /\ ret.op = "delete_first"
    /\ ret.kind = "ok"
    /\ Len(ArrayDeque_data) = 2 * DEFAULT_CAPACITY
    /\ ArrayDeque_front + ArrayDeque_size > Len(ArrayDeque_data)
    /\ ArrayQueue_data = ArrayDeque_data

\* C20: for an in-range i, deque[i] = v makes deque[i] == v, leaves every
\* other deque[j], the size, the front and the capacity unchanged, and a
\* negative i writes the slot that n + i writes.
C20_SetitemChangesOnePosition ==
    [][(ret'.op = "setitem" /\ ret'.kind = "ok") =>
          LET i == ret'.args[1]
              v == ret'.args[2]
              n == ArrayDeque_size
              j == IF i < 0 THEN n + i ELSE i
          IN  /\ 0 <= j /\ j < n
              /\ ArrayDeque_getitem(ArrayDeque_self', i).out = Returned("getitem", <<i>>, v)
              /\ Logical(ArrayDeque_self') = [Logical(ArrayDeque_self) EXCEPT ![j + 1] = v]
              /\ ArrayDeque_size' = n
              /\ ArrayDeque_front' = ArrayDeque_front
              /\ Len(ArrayDeque_data') = Len(ArrayDeque_data)
              /\ ArrayDeque_maxlen' = ArrayDeque_maxlen
              /\ ArrayDeque_index(ArrayDeque_self, i) = ArrayDeque_index(ArrayDeque_self, j)
              /\ ArrayDeque_setitem(ArrayDeque_self, i, v).self
                    = ArrayDeque_setitem(ArrayDeque_self, j, v).self
              /\ \A p \in 1 .. Len(ArrayDeque_data) :
                    p # ArrayDeque_index(ArrayDeque_self, j) + 1
                       => ArrayDeque_data'[p] = ArrayDeque_data[p]]_vars

\* deque[-1] = v has just written the back of a deque of at least two
\* elements whose live region wraps around the buffer's end, and deque[0]
\* still holds another value
C20_Witness ==
    /\ container = "ArrayDeque"
    /\ ret.op = "setitem"
    /\ ret.kind = "ok"
    /\ ret.args[1] = 0 - 1
    /\ ArrayDeque_size >= 2
    /\ ArrayDeque_front + ArrayDeque_size > Len(ArrayDeque_data)
    /\ ArrayDeque_front < Len(ArrayDeque_data)
    /\ Logical(ArrayDeque_self)[ArrayDeque_size] = ret.args[2]
    /\ Logical(ArrayDeque_self)[1] # ret.args[2]

====
